---- MODULE Spec2Model ----
(***************************************************************************)
(* Model of the MCA export worker: the POST /api/generate endpoint in its  *)
(* four variants (src/app/main.py, src/api/app.py, src/api/main.py,        *)
(* src/api/generate.py), the type normalisation and the three renderers.   *)
(*                                                                         *)
(* Python strings are sequences of one-character strings, so that lower(), *)
(* strip(), split(), endswith() and startswith() are computed, not         *)
(* assumed.  A JSON value is a record [t, s]: its JSON type and, for a     *)
(* string, its characters (for a number or an array, the characters of     *)
(* Python's str() of it).                                                  *)
(***************************************************************************)
EXTENDS Integers, Sequences, FiniteSets, TLC

VARIABLES
    env_key,        \* the process environment's PY_WORKER_KEY ("" when unset)
    PY_WORKER_KEY,  \* the module global read from the environment at import
    request,        \* the request handed to an endpoint (one-request runs)
    response,       \* what that endpoint answered
    pending,        \* concurrent runs: requests suspended at "await request.json()"
    done,           \* concurrent runs: finished requests with their responses
    health,         \* concurrent runs: the last answer of / or /healthz
    text,           \* renderer runs: the content handed to the renderers
    out             \* renderer runs: what the three renderers produced

vars == <<env_key, PY_WORKER_KEY, request, response, pending, done, health, text, out>>

(***************************************************************************)
(* Python str methods                                                      *)
(***************************************************************************)
Whitespace == {" ", "\t", "\n", "\r"}

UpperLetters == <<"A","B","C","D","E","F","G","H","I","J","K","L","M",
                  "N","O","P","Q","R","S","T","U","V","W","X","Y","Z">>
LowerLetters == <<"a","b","c","d","e","f","g","h","i","j","k","l","m",
                  "n","o","p","q","r","s","t","u","v","w","x","y","z">>

LowerChar(c) ==
    IF \E i \in DOMAIN UpperLetters : UpperLetters[i] = c
    THEN LowerLetters[CHOOSE i \in DOMAIN UpperLetters : UpperLetters[i] = c]
    ELSE c

\* str.lower()
lower(s) == [i \in 1..Len(s) |-> LowerChar(s[i])]

\* str.strip(): drops leading and trailing whitespace
strip(s) ==
    LET keep == {i \in 1..Len(s) : s[i] \notin Whitespace}
    IN  IF keep = {} THEN <<>>
        ELSE SubSeq(s, CHOOSE i \in keep : \A j \in keep : i <= j,
                       CHOOSE i \in keep : \A j \in keep : i >= j)

\* str.endswith(suffix)
endswith(s, suffix) ==
    /\ Len(s) >= Len(suffix)
    /\ SubSeq(s, Len(s) - Len(suffix) + 1, Len(s)) = suffix

\* str.startswith(prefix)
startswith(s, prefix) ==
    /\ Len(s) >= Len(prefix)
    /\ SubSeq(s, 1, Len(prefix)) = prefix

\* str.replace(c, ""): removes every occurrence of the character c
remove(s, c) == SelectSeq(s, LAMBDA x : x # c)

\* str.split(sep) for a one-character separator: always at least one piece
RECURSIVE split(_, _)
split(s, sep) ==
    IF \A i \in 1..Len(s) : s[i] # sep THEN <<s>>
    ELSE LET k == CHOOSE i \in 1..Len(s) :
                      s[i] = sep /\ \A j \in 1..(i - 1) : s[j] # sep
         IN  <<SubSeq(s, 1, k - 1)>> \o split(SubSeq(s, k + 1, Len(s)), sep)

\* str.split(sep, 1)[1]: what follows the first separator (the caller has
\* checked that there is one)
after_first(s, sep) ==
    LET k == CHOOSE i \in 1..Len(s) :
                 s[i] = sep /\ \A j \in 1..(i - 1) : s[j] # sep
    IN  SubSeq(s, k + 1, Len(s))

(***************************************************************************)
(* JSON values and Python truthiness                                       *)
(***************************************************************************)
Absent   == [t |-> "absent", s |-> <<>>]   \* key not in the object: .get() gives None
Null     == [t |-> "null",   s |-> <<>>]
Str(s)   == [t |-> "str",    s |-> s]
Num5     == [t |-> "num",    s |-> <<"5">>]
Num0     == [t |-> "num",    s |-> <<"0">>]
ArrX     == [t |-> "arr",    s |-> <<"[", "'", "x", "'", "]">>]   \* ["x"]

\* bool(v): None, "", 0 and [] are falsy
truthy(v) ==
    CASE v.t \in {"absent", "null"} -> FALSE
      [] v.t = "str" -> v.s # <<>>
      [] v.t = "num" -> v.s # <<"0">>
      [] OTHER       -> v.s # <<"[", "]">>

\* a or b
py_or(a, b) == IF truthy(a) THEN a ELSE b

\* len(v) is defined for str and list, a TypeError for int
has_len(v) == v.t \in {"str", "arr"}

(***************************************************************************)
(* String literals of the program, as character sequences                  *)
(***************************************************************************)
EmptyStr     == <<>>
Bearer       == <<"B","e","a","r","e","r"," ">>                \* "Bearer "
PDF          == <<"p","d","f">>
DOCX         == <<"d","o","c","x">>
CSV          == <<"c","s","v">>
DOC          == <<"d","o","c">>
WORD         == <<"w","o","r","d">>
EXCEL        == <<"e","x","c","e","l">>
SPREADSHEET  == <<"s","p","r","e","a","d","s","h","e","e","t">>
DotPdf       == <<".">> \o PDF
DotDocx      == <<".">> \o DOCX
DotDoc       == <<".">> \o DOC
DotCsv       == <<".">> \o CSV
SolaceExport == <<"S","o","l","a","c","e"," ","E","x","p","o","r","t">>

Supported    == {PDF, DOCX, CSV}

PdfMedia  == "application/pdf"
DocxMedia == "application/vnd.openxmlformats-officedocument.wordprocessingml.document"
CsvMedia  == "text/csv"

(***************************************************************************)
(* Responses.  stages lists what ran before the answer was decided         *)
(* ("body": the body was read, parsed or validated; "render": a renderer   *)
(* was called).  exc is the exception that left the handler ("none" when   *)
(* it returned or raised an HTTPException); raised is the exception raised *)
(* inside a renderer ("none" when none was).                               *)
(***************************************************************************)
NoData     == [kind |-> "none"]
NoRequest  == [variant |-> "none"]
NoResponse == [status |-> -1]
Continue   == [proceed |-> TRUE]

HTTPException(status_code, detail, named, raised, stages) ==
    [status |-> status_code, detail |-> detail, named |-> named,
     media_type |-> "", filename |-> "", xtype |-> EmptyStr, data |-> NoData,
     exc |-> "none", raised |-> raised, stages |-> stages]

Response(content, media_type, filename, xtype, stages) ==
    [status |-> 200, detail |-> "", named |-> EmptyStr,
     media_type |-> media_type, filename |-> filename, xtype |-> xtype,
     data |-> content, exc |-> "none", raised |-> "none", stages |-> stages]

\* An exception other than HTTPException leaves a FastAPI endpoint: the
\* framework answers 500 "Internal Server Error".
Unhandled(exc, raised, stages) ==
    [status |-> 500, detail |-> "Internal Server Error", named |-> EmptyStr,
     media_type |-> "", filename |-> "", xtype |-> EmptyStr, data |-> NoData,
     exc |-> exc, raised |-> raised, stages |-> stages]

\* An exception leaves BaseHTTPRequestHandler.do_POST: nothing is written.
Crashed(exc, raised, stages) ==
    [status |-> 0, detail |-> "", named |-> EmptyStr,
     media_type |-> "", filename |-> "", xtype |-> EmptyStr, data |-> NoData,
     exc |-> exc, raised |-> raised, stages |-> stages]

\* What a helper gives back: a value, or the exception it raised.
Returned(v) == [ok |-> TRUE, value |-> v, exc |-> "none"]
Raised(exc) == [ok |-> FALSE, value |-> EmptyStr, exc |-> exc]

(***************************************************************************)
(* src/app/main.py: renderers                                              *)
(***************************************************************************)
\* for para in text.split("\n"): para = para.strip(); if not para: continue
nonblank_paragraphs(s) ==
    LET lines    == split(s, "\n")
        stripped == [i \in 1..Len(lines) |-> strip(lines[i])]
    IN  SelectSeq(stripped, LAMBDA p : p # EmptyStr)

generate_pdf(title, content) ==
    IF content.t # "str" THEN Raised("AttributeError")     \* text.split
    ELSE Returned([kind |-> "pdf", heading |-> title,
                   paragraphs |-> nonblank_paragraphs(content.s)])

generate_docx(title, content) ==
    IF content.t # "str" THEN Raised("AttributeError")     \* text.split
    ELSE Returned([kind |-> "docx", heading |-> title,
                   paragraphs |-> nonblank_paragraphs(content.s)])

generate_csv_skipping_blanks(content) ==
    IF content.t # "str" THEN Raised("AttributeError")
    ELSE Returned([kind |-> "csv",
                   rows |-> SelectSeq(split(remove(content.s, "\r"), "\n"),
                                      LAMBDA r : r # EmptyStr)])

generate_csv(content) ==
    IF content.t # "str" THEN Raised("AttributeError")     \* text.replace
    ELSE Returned([kind |-> "csv",
                   rows |-> split(remove(content.s, "\r"), "\n")])

(***************************************************************************)
(* src/app/main.py: normalize_export_type                                  *)
(***************************************************************************)
aliases(raw) ==
    CASE raw = WORD        -> DOCX
      [] raw = DOC         -> DOCX
      [] raw = DOCX        -> DOCX
      [] raw = PDF         -> PDF
      [] raw = CSV         -> CSV
      [] raw = EXCEL       -> CSV
      [] raw = SPREADSHEET -> CSV
      [] OTHER             -> raw

\* raw is a str (the caller applied str()); body is the parsed object.
normalize_export_type(raw, body) ==
    LET raw1 == lower(strip(raw))
    IN  IF raw1 # EmptyStr THEN Returned(aliases(raw1))
        ELSE IF truthy(body.filename) /\ body.filename.t # "str"
             THEN Raised("AttributeError")                 \* (...).lower()
        ELSE LET filename == lower(py_or(body.filename, Str(EmptyStr)).s)
                 raw2 == IF endswith(filename, DotPdf) THEN PDF
                         ELSE IF endswith(filename, DotDocx)
                                 \/ endswith(filename, DotDoc) THEN DOCX
                         ELSE IF endswith(filename, DotCsv) THEN CSV
                         ELSE raw1
             IN  Returned(aliases(raw2))

(***************************************************************************)
(* src/app/main.py: POST /api/generate                                     *)
(***************************************************************************)
Misconfigured   == "Worker misconfigured: PY_WORKER_KEY is not set."
Unauthorized    == "Unauthorized"
InvalidJson     == "Invalid JSON body"
NotAnObject     == "Request body must be a JSON object."
MissingType     == "Missing 'type' field (expected 'pdf', 'docx', or 'csv')."
UnsupportedType == "Unsupported type: '{export_type}'. Supported types are: 'pdf', 'docx', 'csv'."
RenderError     == "Export worker encountered an error while generating the file."

\* The auth check before the key guard: a request with a wrong header is
\* told 401 even when the worker has no key.
generate_auth_before_guard(key, auth) ==
    IF auth # Bearer \o key
    THEN HTTPException(401, Unauthorized, EmptyStr, "none", {})
    ELSE IF key = EmptyStr
    THEN HTTPException(500, Misconfigured, EmptyStr, "none", {})
    ELSE Continue

\* Lines 155-169, up to the handler's only suspension point: the key guard,
\* then the auth check.  auth is the Authorization header, "" when missing.
generate_auth(key, auth) ==
    IF key = EmptyStr
    THEN HTTPException(500, Misconfigured, EmptyStr, "none", {})
    ELSE IF auth # Bearer \o key
    THEN HTTPException(401, Unauthorized, EmptyStr, "none", {})
    ELSE Continue

\* The dispatch of lines 220-234.
render(export_type, title, content) ==
    IF export_type = PDF THEN generate_pdf(title, content)
    ELSE IF export_type = DOCX THEN generate_docx(title, content)
    ELSE generate_csv(content)

media_type_of(export_type) ==
    IF export_type = PDF THEN PdfMedia
    ELSE IF export_type = DOCX THEN DocxMedia
    ELSE CsvMedia

filename_of(export_type) ==
    IF export_type = PDF THEN "solace-export.pdf"
    ELSE IF export_type = DOCX THEN "solace-export.docx"
    ELSE "solace-export.csv"

\* The same without the try/except: the renderer's exception leaves the
\* handler.
render_response_unguarded(export_type, title, content) ==
    LET r == render(export_type, title, content)
    IN  IF r.ok
        THEN Response(r.value, media_type_of(export_type),
                      filename_of(export_type), export_type, {"body", "render"})
        ELSE Unhandled(r.exc, r.exc, {"body", "render"})

\* Lines 218-252: render inside try/except, then build the response.
render_response(export_type, title, content) ==
    LET r == render(export_type, title, content)
    IN  IF r.ok
        THEN Response(r.value, media_type_of(export_type),
                      filename_of(export_type), export_type, {"body", "render"})
        ELSE HTTPException(500, RenderError, EmptyStr, r.exc, {"body", "render"})

\* Lines 185-190: str(type or format or export_type or "").
raw_type_of(body) ==
    py_or(py_or(py_or(body.type, body.format), body.export_type), Str(EmptyStr)).s

\* Lines 171-252, after "await request.json()".
generate_body(body) ==
    IF body.kind = "malformed"
    THEN HTTPException(400, InvalidJson, EmptyStr, "none", {"body"})
    ELSE IF body.kind # "object"
    THEN HTTPException(400, NotAnObject, EmptyStr, "none", {"body"})
    ELSE
    LET raw_type == raw_type_of(body)
        norm     == normalize_export_type(raw_type, body)
        export_type == norm.value
        title    == strip(py_or(body.title, Str(SolaceExport)).s)
        content  == py_or(body.content, Str(EmptyStr))
    IN  IF ~norm.ok THEN Unhandled(norm.exc, "none", {"body"})      \* line 91
        ELSE IF truthy(body.title) /\ body.title.t # "str"
        THEN Unhandled("AttributeError", "none", {"body"})           \* line 193
        ELSE IF ~has_len(content)
        THEN Unhandled("TypeError", "none", {"body"})                \* line 201
        ELSE IF export_type = EmptyStr
        THEN HTTPException(400, MissingType, EmptyStr, "none", {"body"})
        ELSE IF export_type \notin Supported
        THEN HTTPException(400, UnsupportedType, export_type, "none", {"body"})
        ELSE render_response(export_type, title, content)

\* The whole handler, lines 144-252.
generate(key, auth, body) ==
    LET a == generate_auth(key, auth)
    IN  IF a # Continue THEN a ELSE generate_body(body)

\* GET / and GET /healthz, lines 115-137.
root == [ok |-> TRUE, service |-> "mca-export-worker",
         message |-> "Export worker is running."]

healthz(key) == [ok |-> TRUE, status |-> "healthy", has_key |-> key # EmptyStr]

(***************************************************************************)
(* src/api/app.py: POST /api/generate                                      *)
(***************************************************************************)
make_pdf(title, content) ==
    IF content.t # "str" THEN Raised("AttributeError")
    ELSE Returned([kind |-> "pdf", heading |-> title,
                   paragraphs |-> nonblank_paragraphs(content.s)])

make_docx(title, content) ==
    IF content.t # "str" THEN Raised("AttributeError")
    ELSE Returned([kind |-> "docx", heading |-> title,
                   paragraphs |-> nonblank_paragraphs(content.s)])

make_csv(content) ==
    IF content.t # "str" THEN Raised("AttributeError")
    ELSE Returned([kind |-> "csv",
                   rows |-> split(remove(content.s, "\r"), "\n")])

generate_api_app(key, auth, body) ==
    IF key = EmptyStr
    THEN HTTPException(500, "PY_WORKER_KEY not set on server", EmptyStr, "none", {})
    ELSE IF auth # Bearer \o key
    THEN HTTPException(401, Unauthorized, EmptyStr, "none", {})
    ELSE IF body.kind = "malformed"
    THEN HTTPException(400, "Invalid JSON", EmptyStr, "none", {"body"})
    ELSE IF body.kind # "object"
    THEN Unhandled("AttributeError", "none", {"body"})              \* body.get
    ELSE
    LET t       == py_or(py_or(body.type, body.format), Str(EmptyStr))
        export_type == strip(lower(t.s))
        title   == strip(py_or(body.title, Str(SolaceExport)).s)
        content == py_or(body.content, Str(EmptyStr))
        r       == IF export_type = PDF THEN make_pdf(title, content)
                   ELSE IF export_type = DOCX THEN make_docx(title, content)
                   ELSE make_csv(content)
    IN  IF t.t # "str" THEN Unhandled("AttributeError", "none", {"body"})   \* .lower()
        ELSE IF truthy(body.title) /\ body.title.t # "str"
        THEN Unhandled("AttributeError", "none", {"body"})           \* .strip()
        ELSE IF export_type \notin Supported
        THEN HTTPException(400, "Invalid export type: {export_type}",
                           export_type, "none", {"body"})
        ELSE IF ~r.ok THEN Unhandled(r.exc, r.exc, {"body", "render"})
        ELSE Response(r.value, media_type_of(export_type),
                      filename_of(export_type), EmptyStr, {"body", "render"})

(***************************************************************************)
(* src/api/main.py: POST /api/generate with a pydantic payload             *)
(***************************************************************************)
\* for para in text.split("\n"): every line is a paragraph
all_paragraphs(s) == split(s, "\n")

\* A field of ExportPayload (all declared str) accepts the JSON value v.
\* lax: the installed validator coerces numbers to str (pydantic 1) or
\* rejects them (pydantic 2); the repository pins neither.
field_accepts(v, required, lax) ==
    \/ v.t = "str"
    \/ lax /\ v.t = "num"
    \/ ~required /\ v.t = "absent"

\* ExportPayload, lines 19-22: the payload FastAPI builds from the body
\* before it calls generate().
ExportPayload(body, lax) ==
    IF /\ body.kind = "object"
       /\ field_accepts(body.type, TRUE, lax)
       /\ field_accepts(body.title, FALSE, lax)
       /\ field_accepts(body.content, FALSE, lax)
    THEN Returned([type    |-> body.type.s,
                   title   |-> IF body.title.t = "absent" THEN SolaceExport
                               ELSE body.title.s,
                   content |-> IF body.content.t = "absent" THEN EmptyStr
                               ELSE body.content.s])
    ELSE Raised("RequestValidationError")

generate_api_main(key, auth, body, lax) ==
    LET p == ExportPayload(body, lax)
        payload == p.value
        export_type == strip(lower(payload.type))
    IN  IF ~p.ok
        THEN HTTPException(422, "Unprocessable Entity", EmptyStr, "none", {"body"})
        ELSE IF key = EmptyStr \/ auth # Bearer \o key
        THEN HTTPException(401, Unauthorized, EmptyStr, "none", {"body"})
        ELSE IF export_type = PDF
        THEN Response([kind |-> "pdf", heading |-> payload.title,
                       paragraphs |-> all_paragraphs(payload.content)],
                      PdfMedia, "", EmptyStr, {"body", "render"})
        ELSE IF export_type = DOCX
        THEN Response([kind |-> "docx", heading |-> payload.title,
                       paragraphs |-> all_paragraphs(payload.content)],
                      DocxMedia, "", EmptyStr, {"body", "render"})
        ELSE IF export_type = CSV
        THEN Response([kind |-> "csv",
                       rows |-> split(remove(payload.content, "\r"), "\n")],
                      CsvMedia, "", EmptyStr, {"body", "render"})
        ELSE HTTPException(400, "Unsupported type", EmptyStr, "none", {"body"})

(***************************************************************************)
(* src/api/generate.py: handler.do_POST                                    *)
(***************************************************************************)
\* str(v) as an f-string prints it
py_str(v) ==
    IF v.t = "null" THEN <<"N","o","n","e">> ELSE v.s

\* body.get(key, default): the default only when the key is absent
get_default(v, default) == IF v.t = "absent" THEN default ELSE v

do_POST(key, auth, body0) ==
    LET body    == IF body0.kind = "malformed"                      \* body = {}
                   THEN [body0 EXCEPT !.kind = "object"] ELSE body0
        export_type == get_default(body.type, Str(EmptyStr))
        title   == get_default(body.title, Str(SolaceExport))
        content == get_default(body.content, Str(EmptyStr))
    IN  IF ~startswith(auth, Bearer) \/ after_first(auth, " ") # key
        THEN HTTPException(401, Unauthorized, EmptyStr, "none", {})
        ELSE IF body.kind # "object"
        THEN Crashed("AttributeError", "none", {"body"})             \* body.get
        ELSE IF export_type = Str(PDF)
        THEN IF content.t # "str"
             THEN Crashed("AttributeError", "AttributeError", {"body", "render"})
             ELSE Response([kind |-> "pdf", heading |-> py_str(title),
                            paragraphs |-> all_paragraphs(content.s)],
                           PdfMedia, "", EmptyStr, {"body", "render"})
        ELSE IF export_type = Str(DOCX)
        THEN IF truthy(title) /\ title.t # "str"                    \* add_run(text)
             THEN Crashed("TypeError", "TypeError", {"body", "render"})
             ELSE IF content.t # "str"
             THEN Crashed("AttributeError", "AttributeError", {"body", "render"})
             ELSE Response([kind |-> "docx",
                            heading |-> IF truthy(title) THEN title.s ELSE EmptyStr,
                            paragraphs |-> all_paragraphs(content.s)],
                           DocxMedia, "", EmptyStr, {"body", "render"})
        ELSE IF export_type = Str(CSV)
        THEN IF content.t # "str"
             THEN Crashed("AttributeError", "AttributeError", {"body", "render"})
             \* csv.writer over a BytesIO: writerow() writes a str to it
             ELSE Crashed("TypeError", "TypeError", {"body", "render"})
        ELSE HTTPException(400, "Unsupported type", EmptyStr, "none", {"body"})

(***************************************************************************)
(* Requests                                                                *)
(***************************************************************************)
Secret  == <<"k">>
Keys    == {EmptyStr, Secret}

AuthValues ==
    { EmptyStr,                               \* no Authorization header
      Bearer \o Secret,                       \* "Bearer k"
      Bearer,                                 \* "Bearer " with an empty token
      Bearer \o <<"x">>,                      \* wrong secret
      lower(Bearer) \o Secret,                \* wrong scheme spelling
      Secret }                                \* the bare secret

TypeValues ==
    { Absent, Str(EmptyStr), Str(PDF), Str(DOCX), Str(CSV),
      Str(<<"W","o","r","d">>), Str(<<" ","P","D","F"," ">>),
      Str(<<"E","X","C","E","L">>), Str(<<"x","m","l">>), Str(<<" ">>), Num5 }
FormatValues     == { Absent, Str(DOC), Str(SPREADSHEET) }
ExportTypeValues == { Absent, Str(CSV) }
FilenameValues ==
    { Absent,
      Str(<<"r","e","p","o","r","t",".","p","d","f">>),
      Str(<<"r","e","p","o","r","t",".","P","D","F">>),
      Str(<<"a",".","d","o","c">>),
      Str(<<"a",".","c","s","v">>),
      Str(<<"a",".","t","x","t">>),
      Num5 }
TitleValues   == { Absent, Str(<<" ","T"," ">>), Num5 }
ContentValues ==
    { Absent, Null, Num0, Num5, ArrX,
      Str(<<"a","\n","\n","b">>), Str(<<"a","\r","\n"," ","b"," ">>) }

NoFields(kind) ==
    [kind |-> kind, type |-> Absent, format |-> Absent, export_type |-> Absent,
     filename |-> Absent, title |-> Absent, content |-> Absent]

ObjectBodies ==
    [kind : {"object"}, type : TypeValues, format : FormatValues,
     export_type : ExportTypeValues, filename : FilenameValues,
     title : TitleValues, content : ContentValues]

\* malformed JSON, a JSON array, a JSON number, or a JSON object
Bodies == {NoFields("malformed"), NoFields("array"), NoFields("number")}
              \cup ObjectBodies

(***************************************************************************)
(* One request to one variant of the endpoint                              *)
(***************************************************************************)
Quiet ==
    /\ pending = <<>> /\ done = <<>> /\ health = NoResponse
    /\ text = EmptyStr /\ out = NoData

Init ==
    /\ env_key \in Keys
    /\ PY_WORKER_KEY = env_key                 \* os.getenv("PY_WORKER_KEY", "")
    /\ request = NoRequest
    /\ response = NoResponse
    /\ Quiet

Serve(variant, auth, body, lax, answer) ==
    /\ request' = [variant |-> variant, auth |-> auth, body |-> body, lax |-> lax]
    /\ response' = answer
    /\ UNCHANGED <<env_key, PY_WORKER_KEY, pending, done, health, text, out>>

PostAppMain ==
    /\ request = NoRequest
    /\ \E auth \in AuthValues, body \in Bodies :
        Serve("app/main.py", auth, body, FALSE, generate(PY_WORKER_KEY, auth, body))

PostApiApp ==
    /\ request = NoRequest
    /\ \E auth \in AuthValues, body \in Bodies :
        Serve("api/app.py", auth, body, FALSE,
              generate_api_app(PY_WORKER_KEY, auth, body))

PostApiMain ==
    /\ request = NoRequest
    /\ \E auth \in AuthValues, body \in Bodies, lax \in BOOLEAN :
        Serve("api/main.py", auth, body, lax,
              generate_api_main(PY_WORKER_KEY, auth, body, lax))

PostGenerate ==
    /\ request = NoRequest
    /\ \E auth \in AuthValues, body \in Bodies :
        Serve("api/generate.py", auth, body, FALSE,
              do_POST(PY_WORKER_KEY, auth, body))

Next == PostAppMain \/ PostApiApp \/ PostApiMain \/ PostGenerate

Spec == Init /\ [][Next]_vars

(***************************************************************************)
(* Properties of one request                                               *)
(***************************************************************************)
Handled   == response # NoResponse
AppMain   == Handled /\ request.variant = "app/main.py"
ValidAuth == request.auth = Bearer \o PY_WORKER_KEY

\* An authenticated request to src/app/main.py with a JSON-object body.
AppMainObject ==
    /\ AppMain
    /\ PY_WORKER_KEY # EmptyStr
    /\ ValidAuth
    /\ request.body.kind = "object"

\* C1: in every variant, with a non-empty secret, a request whose
\* Authorization header is missing or is not exactly "Bearer <secret>" gets
\* 401 whatever its body, and nothing was decided about the body and no
\* renderer was called before the 401.
C1_UnauthenticatedAlways401 ==
    (Handled /\ PY_WORKER_KEY # EmptyStr /\ ~ValidAuth)
        => (response.status = 401 /\ response.stages = {})

\* C2: in src/app/main.py, with an empty secret, every request gets the 500
\* of a misconfigured worker, whatever its header and body, before any look
\* at the header or the body, and no renderer is called.
C2_EmptyKeyAlways500 ==
    (AppMain /\ PY_WORKER_KEY = EmptyStr)
        => /\ response.status = 500
           /\ response.detail = Misconfigured
           /\ response.stages = {}
           /\ response.data = NoData

\* C2's case: an empty secret, the header "Bearer " (which equals
\* "Bearer " + secret) and a valid pdf request, answered 500.
C2_Witness ==
    /\ AppMain
    /\ PY_WORKER_KEY = EmptyStr
    /\ request.auth = Bearer
    /\ request.body.kind = "object"
    /\ request.body.type = Str(PDF)
    /\ request.body.content.t = "str"
    /\ response.status = 500

\* C3: in no variant is a request accepted while the secret is empty: the
\* answer is never 200 and no document is rendered.
C3_EmptyKeyNeverAccepted ==
    (Handled /\ PY_WORKER_KEY = EmptyStr)
        => (response.status # 200 /\ "render" \notin response.stages)

(***************************************************************************)
(* The reference normalisation of section 4.1, written from its text:      *)
(* positions and sets, not the program's helpers.                          *)
(***************************************************************************)
RefEmpty(v) == v.t \in {"absent", "null"} \/ Len(v.s) = 0

RefFirst(body) ==
    IF ~RefEmpty(body.type) THEN body.type.s
    ELSE IF ~RefEmpty(body.format) THEN body.format.s
    ELSE IF ~RefEmpty(body.export_type) THEN body.export_type.s
    ELSE <<>>

RECURSIVE RefTrimLeft(_)
RefTrimLeft(s) ==
    IF s # <<>> /\ Head(s) \in {" ", "\t", "\n", "\r"} THEN RefTrimLeft(Tail(s)) ELSE s

RECURSIVE RefTrimRight(_)
RefTrimRight(s) ==
    IF s # <<>> /\ s[Len(s)] \in {" ", "\t", "\n", "\r"}
    THEN RefTrimRight(SubSeq(s, 1, Len(s) - 1)) ELSE s

RefTrim(s) == RefTrimRight(RefTrimLeft(s))

RefLowerTable ==
    [c \in {"W", "P", "D", "F", "E", "X", "C", "L", "O", "R", "T"} |->
        CASE c = "W" -> "w" [] c = "P" -> "p" [] c = "D" -> "d" [] c = "F" -> "f"
          [] c = "E" -> "e" [] c = "X" -> "x" [] c = "C" -> "c" [] c = "L" -> "l"
          [] c = "O" -> "o" [] c = "R" -> "r" [] c = "T" -> "t"]

RefLower(s) ==
    [i \in DOMAIN s |-> IF s[i] \in DOMAIN RefLowerTable THEN RefLowerTable[s[i]] ELSE s[i]]

\* the extension: what follows the last "." of a string filename
RefExtension(v) ==
    IF v.t # "str" \/ \A i \in DOMAIN v.s : v.s[i] # "." THEN <<>>
    ELSE LET d == CHOOSE i \in DOMAIN v.s :
                      v.s[i] = "." /\ \A j \in DOMAIN v.s : j > i => v.s[j] # "."
         IN  RefLower([i \in 1..(Len(v.s) - d) |-> v.s[d + i]])

RefAlias(t) ==
    IF t \in {<<"w","o","r","d">>, <<"d","o","c">>, <<"d","o","c","x">>}
    THEN <<"d","o","c","x">>
    ELSE IF t \in {<<"e","x","c","e","l">>, <<"c","s","v">>,
                   <<"s","p","r","e","a","d","s","h","e","e","t">>}
    THEN <<"c","s","v">>
    ELSE t

RefNormalize(body) ==
    LET t   == RefLower(RefTrim(RefFirst(body)))
        ext == RefExtension(body.filename)
        inferred ==
            IF t # <<>> THEN t
            ELSE IF ext = <<"p","d","f">> THEN ext
            ELSE IF ext \in {<<"d","o","c","x">>, <<"d","o","c">>}
            THEN <<"d","o","c","x">>
            ELSE IF ext = <<"c","s","v">> THEN ext
            ELSE t
    IN  RefAlias(inferred)

\* C4: in src/app/main.py, for an authenticated request with a JSON-object
\* body whose renderer does not raise, the normalised type alone decides the
\* outcome: 200 exactly for pdf, docx and csv, with that type's media type,
\* filename and X-MCA-Export-Type; otherwise 400, "missing type" exactly
\* when the normalised type is empty, "unsupported type" when it is not.
C4_TypeAloneDecides ==
    (AppMainObject /\ response.raised = "none")
        => LET T == RefNormalize(request.body)
           IN  /\ (response.status = 200) <=> (T \in {PDF, DOCX, CSV})
               /\ T = PDF  => /\ response.media_type = "application/pdf"
                              /\ response.filename = "solace-export.pdf"
               /\ T = DOCX => /\ response.media_type =
                                   "application/vnd.openxmlformats-officedocument.wordprocessingml.document"
                              /\ response.filename = "solace-export.docx"
               /\ T = CSV  => /\ response.media_type = "text/csv"
                              /\ response.filename = "solace-export.csv"
               /\ T \in {PDF, DOCX, CSV} => response.xtype = T
               /\ T \notin {PDF, DOCX, CSV} => response.status = 400
               /\ T = <<>> => response.detail = MissingType
               /\ (T # <<>> /\ T \notin {PDF, DOCX, CSV})
                      => (response.detail = UnsupportedType /\ response.named = T)

\* C5: in src/app/main.py, the normalised export type of every JSON-object
\* body is the reference normalisation of it.
C5_NormalizationIsReference ==
    AppMainObject
        => LET n == normalize_export_type(raw_type_of(request.body), request.body)
           IN  n.ok /\ n.value = RefNormalize(request.body)

\* C7: in src/app/main.py, an exception raised inside a renderer is answered
\* 500 with the fixed generic message and leaves the handler as an
\* HTTPException; a 200 carries the whole rendered document and every other
\* answer carries no document.
C7_RenderErrorsAreGeneric500 ==
    AppMain
        => /\ response.raised # "none"
                => /\ response.status = 500
                   /\ response.detail = RenderError
                   /\ response.exc = "none"
           /\ response.status = 200
                => /\ response.data # NoData
                   /\ response.raised = "none"
                   /\ "render" \in response.stages
           /\ response.status # 200 => response.data = NoData

\* C7's case: a supported type whose renderer raises (the content is a JSON
\* array, which has a length and no split()), answered with the generic 500.
C7_Witness ==
    /\ AppMainObject
    /\ request.body.content = ArrX
    /\ response.raised = "AttributeError"
    /\ response.status = 500
    /\ response.detail = RenderError

\* C8: whenever a simpler variant answers 200 with a media type,
\* src/app/main.py answers the same secret, header and body with 200 and the
\* same media type.
C8_AppMainGeneralizes ==
    (Handled /\ request.variant # "app/main.py" /\ response.status = 200)
        => LET a == generate(PY_WORKER_KEY, request.auth, request.body)
           IN  a.status = 200 /\ a.media_type = response.media_type

\* C10: in src/app/main.py, an authenticated request with a JSON-object body
\* ends in the 200 response or in one of the handler's own HTTPExceptions
\* (400 missing or unsupported type, 500 render error), whatever the JSON
\* types of its fields; no other exception leaves the handler.
C10_OnlyOwnExceptions ==
    AppMainObject
        => /\ response.exc = "none"
           /\ \/ response.status = 200
              \/ response.status = 400 /\ response.detail \in {MissingType, UnsupportedType}
              \/ response.status = 500 /\ response.detail = RenderError

(***************************************************************************)
(* Concurrent requests to src/app/main.py.  generate() is a coroutine with *)
(* one suspension point, "await request.json()" (line 173): the event loop *)
(* runs lines 155-169 of a request, may then run other requests and the    *)
(* GET endpoints, and resumes it with lines 174-252.                       *)
(***************************************************************************)
NumRequests == 2
Ids == 1..NumRequests

ConcAuthValues == { EmptyStr, Bearer \o Secret }
ConcBodies ==
    { NoFields("array"),
      NoFields("object"),
      [NoFields("object") EXCEPT !.type = Str(PDF),
                                 !.content = Str(<<"a","\n","\n","b">>)],
      [NoFields("object") EXCEPT !.type = Str(CSV),
                                 !.content = Str(<<"a","\n","\n","b">>)],
      [NoFields("object") EXCEPT !.type = Str(PDF), !.title = Num5] }

InitConc ==
    /\ env_key \in Keys
    /\ PY_WORKER_KEY = env_key
    /\ request = NoRequest /\ response = NoResponse
    /\ pending = [i \in Ids |-> NoRequest]
    /\ done = [i \in Ids |-> NoResponse]
    /\ health = NoResponse
    /\ text = EmptyStr /\ out = NoData

\* Request i arrives and runs up to the suspension point.
Receive(i) ==
    /\ pending[i] = NoRequest /\ done[i] = NoResponse
    /\ \E auth \in ConcAuthValues, body \in ConcBodies :
          LET a == generate_auth(PY_WORKER_KEY, auth)
          IN  IF a # Continue
              THEN /\ done' = [done EXCEPT ![i] =
                                  [auth |-> auth, body |-> body, response |-> a]]
                   /\ UNCHANGED pending
              ELSE /\ pending' = [pending EXCEPT ![i] = [auth |-> auth, body |-> body]]
                   /\ UNCHANGED done
    /\ UNCHANGED <<env_key, PY_WORKER_KEY, request, response, health, text, out>>

\* The body read is kept in a variable shared by the requests in flight: a
\* resumed request works on whichever body was stored last.
ResumeSharedBody(i) ==
    /\ pending[i] # NoRequest
    /\ \E j \in Ids :
          /\ pending[j] # NoRequest
          /\ done' = [done EXCEPT ![i] =
                         [auth |-> pending[i].auth, body |-> pending[i].body,
                          response |-> generate_body(pending[j].body)]]
    /\ pending' = [pending EXCEPT ![i] = NoRequest]
    /\ UNCHANGED <<env_key, PY_WORKER_KEY, request, response, health, text, out>>

\* Request i resumes after the await and runs to its answer.
Resume(i) ==
    /\ pending[i] # NoRequest
    /\ done' = [done EXCEPT ![i] =
                   [auth |-> pending[i].auth, body |-> pending[i].body,
                    response |-> generate_body(pending[i].body)]]
    /\ pending' = [pending EXCEPT ![i] = NoRequest]
    /\ UNCHANGED <<env_key, PY_WORKER_KEY, request, response, health, text, out>>

GetRoot ==
    /\ health' = root
    /\ UNCHANGED <<env_key, PY_WORKER_KEY, request, response, pending, done, text, out>>

GetHealthz ==
    /\ health' = healthz(PY_WORKER_KEY)
    /\ UNCHANGED <<env_key, PY_WORKER_KEY, request, response, pending, done, text, out>>

NextConc ==
    \/ \E i \in Ids : Receive(i)
    \/ \E i \in Ids : Resume(i)
    \/ GetRoot
    \/ GetHealthz

SpecConc == InitConc /\ [][NextConc]_vars

\* C9: request handling in src/app/main.py writes no shared state: under
\* every interleaving of requests to /api/generate, / and /healthz the
\* secret stays what the environment gave, and each finished request has the
\* answer its own header and body get when it is served alone.
C9_NoSharedState ==
    /\ PY_WORKER_KEY = env_key
    /\ \A i \in DOMAIN done :
          done[i] # NoResponse
              => done[i].response = generate(env_key, done[i].auth, done[i].body)
    /\ \A i, j \in DOMAIN done :
          (/\ done[i] # NoResponse /\ done[j] # NoResponse
           /\ done[i].auth = done[j].auth /\ done[i].body = done[j].body)
              => done[i].response = done[j].response
    /\ (health # NoResponse /\ health # root)
          => health.has_key = (env_key # EmptyStr)

\* C9's case: a request was answered 200 while another request, with another
\* body, is suspended at the await, and /healthz has been served in between.
C9_Witness ==
    \E i, j \in DOMAIN done :
        /\ i # j
        /\ done[i] # NoResponse
        /\ done[i].response.status = 200
        /\ pending[j] # NoRequest
        /\ pending[j].body # done[i].body
        /\ health = healthz(env_key)

(***************************************************************************)
(* The renderers of src/app/main.py on every content up to MaxLen          *)
(* characters.                                                             *)
(***************************************************************************)
MaxLen == 4
Chars == {"a", "b", " ", "\n", "\r"}
Contents == UNION {[1..n -> Chars] : n \in 0..MaxLen}

NoOutput == [pdf |-> NoData, docx |-> NoData, csv |-> NoData]

InitRender ==
    /\ env_key \in {Secret}
    /\ PY_WORKER_KEY = env_key
    /\ request = NoRequest /\ response = NoResponse
    /\ pending = <<>> /\ done = <<>> /\ health = NoResponse
    /\ text \in Contents
    /\ out = NoOutput

RenderPdf ==
    /\ out.pdf = NoData
    /\ out' = [out EXCEPT !.pdf = generate_pdf(SolaceExport, Str(text)).value]
    /\ UNCHANGED <<env_key, PY_WORKER_KEY, request, response, pending, done, health, text>>

RenderDocx ==
    /\ out.docx = NoData
    /\ out' = [out EXCEPT !.docx = generate_docx(SolaceExport, Str(text)).value]
    /\ UNCHANGED <<env_key, PY_WORKER_KEY, request, response, pending, done, health, text>>

RenderCsv ==
    /\ out.csv = NoData
    /\ out' = [out EXCEPT !.csv = generate_csv(Str(text)).value]
    /\ UNCHANGED <<env_key, PY_WORKER_KEY, request, response, pending, done, health, text>>

NextRender == RenderPdf \/ RenderDocx \/ RenderCsv

SpecRender == InitRender /\ [][NextRender]_vars

\* The lines of s, by the positions of its newlines.
RefLines(s) ==
    LET nl       == {i \in 1..Len(s) : s[i] = "\n"}
        n        == Cardinality(nl)
        pos(k)   == CHOOSE i \in nl : Cardinality({j \in nl : j < i}) = k - 1
        first(k) == IF k = 1 THEN 1 ELSE pos(k - 1) + 1
        last(k)  == IF k = n + 1 THEN Len(s) ELSE pos(k) - 1
    IN  [k \in 1..(n + 1) |-> SubSeq(s, first(k), last(k))]

RECURSIVE RefWithoutCR(_)
RefWithoutCR(s) ==
    IF s = <<>> THEN <<>>
    ELSE IF Head(s) = "\r" THEN RefWithoutCR(Tail(s))
    ELSE <<Head(s)>> \o RefWithoutCR(Tail(s))

RECURSIVE RefNonBlankTrimmed(_)
RefNonBlankTrimmed(lines) ==
    IF lines = <<>> THEN <<>>
    ELSE IF RefTrim(Head(lines)) = <<>> THEN RefNonBlankTrimmed(Tail(lines))
    ELSE <<RefTrim(Head(lines))>> \o RefNonBlankTrimmed(Tail(lines))

ABlankB == <<"a", "\n", "\n", "b">>

\* C6: generate_csv gives one row per line of the content with its carriage
\* returns removed, blank lines kept as empty rows (newlines + 1 rows);
\* generate_pdf and generate_docx give one paragraph per line that is not
\* empty after trimming, in order, and nothing for a blank line.  "a\n\nb"
\* is three rows and two paragraphs.
C6_BlankLineAsymmetry ==
    /\ out # NoData /\ out.csv # NoData
          => /\ out.csv.rows = RefLines(RefWithoutCR(text))
             /\ Len(out.csv.rows) =
                    Cardinality({i \in 1..Len(text) : text[i] = "\n"}) + 1
             /\ text = ABlankB => out.csv.rows = <<<<"a">>, <<>>, <<"b">>>>
    /\ out # NoData /\ out.pdf # NoData
          => /\ out.pdf.heading = SolaceExport
             /\ out.pdf.paragraphs = RefNonBlankTrimmed(RefLines(text))
             /\ text = ABlankB => out.pdf.paragraphs = <<<<"a">>, <<"b">>>>
    /\ out # NoData /\ out.docx # NoData
          => /\ out.docx.heading = SolaceExport
             /\ out.docx.paragraphs = RefNonBlankTrimmed(RefLines(text))
             /\ text = ABlankB => out.docx.paragraphs = <<<<"a">>, <<"b">>>>

\* C6's case: "a\n\nb" rendered by all three.
C6_Witness ==
    /\ text = ABlankB
    /\ out # NoData
    /\ out.csv # NoData /\ out.pdf # NoData /\ out.docx # NoData
    /\ Len(out.csv.rows) = 3
    /\ Len(out.pdf.paragraphs) = 2
    /\ Len(out.docx.paragraphs) = 2

====
